---- MODULE Spec2Model ----
(***************************************************************************)
(* Model of the alarm syscall driver capsule (capsules/src/alarm.rs): one  *)
(* hardware alarm multiplexed over the per-process grant records, with the *)
(* snapshot region it publishes; and of the write path of the console      *)
(* (capsules/src/console.rs) and the MLX90614 thermometer driver           *)
(* (capsules/src/mlx90614.rs).                                             *)
(*                                                                         *)
(* Tick values keep their real width.  TLC integers stop at 2^31-1, so a   *)
(* tick value is a little-endian sequence of 16-bit limbs: two limbs for   *)
(* u32 / Ticks32, four limbs for Ticks64.                                  *)
(***************************************************************************)
EXTENDS Integers, Sequences, FiniteSets, TLC

VARIABLES width, live, now, app_alarms, num_armed, next_alarm, hw, ret,
          upcalls, last, ticks, stopped,
          ros_enabled, ros_region, ros_count,
          apps, tx_in_progress, tx_buffer, uart, panicked,
          state, buffer, smbus_temp, upcall, temperature

vars == <<width, live, now, app_alarms, num_armed, next_alarm, hw, ret,
          upcalls, last, ticks, stopped,
          ros_enabled, ros_region, ros_count,
          apps, tx_in_progress, tx_buffer, uart, panicked,
          state, buffer, smbus_temp, upcall, temperature>>

\* the alarm driver's own state, the snapshot fields of the alarm driver,
\* the console (capsules/src/console.rs) and the thermometer
\* (capsules/src/mlx90614.rs)
alarm_vars == <<width, live, now, app_alarms, num_armed, next_alarm, hw,
                ticks, stopped>>

ros_vars == <<ros_enabled, ros_region, ros_count>>

console_vars == <<apps, tx_in_progress, tx_buffer, uart>>

mlx_vars == <<state, buffer, smbus_temp, upcall, temperature>>

\* panicked: the kernel has panicked and runs no more
elsewhere == <<ros_vars, console_vars, mlx_vars, panicked>>

----------------------------------------------------------------------------
(* Limb arithmetic                                                         *)

Base == 65536

Limbs32 == 2

Limbs64 == 4

\* the u32 with high half hi and low half lo, e.g. U32(65535, 65520) is 0xFFFFFFF0
U32(hi, lo) == <<lo, hi>>

\* a u32 below 2^16
Small(n) == U32(0, n)

\* the 64-bit value with high word (hh, hl) and low word (lh, ll)
U64(hh, hl, lh, ll) == <<ll, lh, hl, hh>>

Zero(n) == [i \in 1..n |-> 0]

RECURSIVE AddFrom(_, _, _, _)
AddFrom(a, b, i, carry) ==
    IF i > Len(a) THEN <<>>
    ELSE LET s == a[i] + b[i] + carry
         IN  <<s % Base>> \o AddFrom(a, b, i + 1, s \div Base)

RECURSIVE SubFrom(_, _, _, _)
SubFrom(a, b, i, borrow) ==
    IF i > Len(a) THEN <<>>
    ELSE LET d == a[i] - b[i] - borrow
         IN  IF d < 0 THEN <<d + Base>> \o SubFrom(a, b, i + 1, 1)
                      ELSE <<d>> \o SubFrom(a, b, i + 1, 0)

\* Ticks::wrapping_add, at the width of its operands
wrapping_add(a, b) == AddFrom(a, b, 1, 0)

\* Ticks::wrapping_sub, at the width of its operands
wrapping_sub(a, b) == SubFrom(a, b, 1, 0)

RECURSIVE LtFrom(_, _, _)
LtFrom(a, b, i) ==
    IF i = 0 THEN FALSE
    ELSE IF a[i] # b[i] THEN a[i] < b[i]
    ELSE LtFrom(a, b, i - 1)

\* a < b on unsigned values of the same width
Lt(a, b) == LtFrom(a, b, Len(a))

Leq(a, b) == ~Lt(b, a)

\* Ticks::into_u32: the low 32 bits
into_u32(t) == SubSeq(t, 1, Limbs32)

\* A::Ticks::from(u32): zero extension to n limbs
from_u32(u, n) == u \o Zero(n - Limbs32)

\* Ticks::within_range: self lies in the circular interval [start, end)
within_range(self, start, end) ==
    Lt(wrapping_sub(self, start), wrapping_sub(end, start))

----------------------------------------------------------------------------
(* Bounds and input sets                                                   *)

\* process identities
Procs == {1, 2, 3}

\* how many times the counter is advanced in one behaviour
MaxTicks == 2

\* widths of A::Ticks, in limbs
Widths == {Limbs32, Limbs64}

\* counter values at construction
StartNows(n) ==
    IF n = Limbs32
    THEN {Small(120), U32(65535, 65520)}
    ELSE {U64(0, 0, 0, 120), U64(0, 1, 0, 80)}

\* how far the counter moves between two kernel steps
TickSteps == {Small(16)}

\* (reference, dt) arguments of command 6
RefArgs == {<<Small(100), Small(50)>>, <<Small(120), Small(10)>>,
            <<U32(65535, 65520), Small(32)>>}

\* data argument of command 4, the target time
AbsArgs == {Small(104)}

\* data argument of command 5, the dt
RelArgs == {Small(0)}

\* the inputs of SpecWrap
WrapSteps == {Small(8), Small(16), Small(24)}

WrapRefs == {<<U32(65535, 65520), Small(32)>>}

WrapAbs == {Small(8)}

WrapRels == {Small(8)}

\* the inputs of SpecSweep
SweepRefs == {<<Small(100), Small(0)>>, <<Small(100), Small(10)>>}

SweepRels == {Small(0)}

\* the commands of SpecSweep: stop, set relative, set with reference, unknown
SweepCommands == {3, 5, 6, 7}

\* the inputs of SpecAudit
AuditRefs == {<<Small(100), Small(50)>>, <<Small(120), Small(10)>>}

\* command numbers; 7 stands for every unknown one
Commands == 0..7

----------------------------------------------------------------------------
(* Data model                                                              *)

Disabled == [tag |-> "Disabled"]

Enabled(reference, dt) == [tag |-> "Enabled", reference |-> reference, dt |-> dt]

IsEnabled(e) == e.tag = "Enabled"

\* AlarmData::default
AlarmData_default == [expiration |-> Disabled, callback |-> "null"]

NoUpcalls == [p \in Procs |-> <<>>]

----------------------------------------------------------------------------
(* Syscall return values                                                   *)

NoReturn == [kind |-> "None"]

Success == [kind |-> "Success"]

SuccessU32(v) == [kind |-> "SuccessU32", value |-> v]

Failure(e) == [kind |-> "Failure", err |-> e]

\* <A::Frequency>::frequency(), a property of the chip's timer
frequency == U32(0, 32768)

----------------------------------------------------------------------------
(* Hardware alarm (hil::time::Alarm): the last operation applied to it     *)

HwUntouched == [op |-> "none"]

HwDisarmed == [op |-> "disarm"]

HwSet(reference, dt) == [op |-> "set_alarm", reference |-> reference, dt |-> dt]

----------------------------------------------------------------------------
(* AlarmDriver::reset_active_alarm                                         *)

\* the orders in which the grant iterator can visit the processes
Orders(ps) == {o \in [1..Cardinality(ps) -> ps] :
                  \A i, j \in 1..Cardinality(ps) : o[i] = o[j] => i = j}

NoEarliest(n) == [earliest_alarm |-> Disabled, earliest_end |-> Zero(n)]

\* the scan without its first case: a record ending inside the interval of
\* the earliest one does not replace it
ScanStep_keeps_first(acc, expiration, now_lower_bits, n) ==
    IF ~IsEnabled(expiration) THEN acc
    ELSE
      LET current_end_ticks == wrapping_add(from_u32(expiration.reference, n),
                                            from_u32(expiration.dt, n))
      IN  IF ~IsEnabled(acc.earliest_alarm)
          THEN [earliest_alarm |-> expiration, earliest_end |-> current_end_ticks]
          ELSE
            LET temp_earliest_reference == from_u32(acc.earliest_alarm.reference, n)
                temp_earliest_end ==
                    wrapping_add(temp_earliest_reference,
                                 from_u32(acc.earliest_alarm.dt, n))
            IN  IF ~within_range(now_lower_bits, temp_earliest_reference,
                                 temp_earliest_end)
                THEN [earliest_alarm |-> expiration,
                      earliest_end |-> temp_earliest_end]
                ELSE acc

\* the closure of the scan loop, applied to one grant record
ScanStep(acc, expiration, now_lower_bits, n) ==
    IF ~IsEnabled(expiration) THEN acc
    ELSE
      LET current_reference_ticks == from_u32(expiration.reference, n)
          current_dt_ticks == from_u32(expiration.dt, n)
          current_end_ticks == wrapping_add(current_reference_ticks, current_dt_ticks)
      IN  IF ~IsEnabled(acc.earliest_alarm)
          THEN [earliest_alarm |-> expiration, earliest_end |-> current_end_ticks]
          ELSE
            LET temp_earliest_reference == from_u32(acc.earliest_alarm.reference, n)
                temp_earliest_dt == from_u32(acc.earliest_alarm.dt, n)
                temp_earliest_end ==
                    wrapping_add(temp_earliest_reference, temp_earliest_dt)
            IN  IF within_range(current_end_ticks, temp_earliest_reference,
                                temp_earliest_end)
                THEN [earliest_alarm |-> expiration,
                      earliest_end |-> current_end_ticks]
                ELSE IF ~within_range(now_lower_bits, temp_earliest_reference,
                                      temp_earliest_end)
                THEN [earliest_alarm |-> expiration,
                      earliest_end |-> temp_earliest_end]
                ELSE acc

RECURSIVE Scan(_, _, _, _, _, _)
Scan(alarms, order, i, acc, now_lower_bits, n) ==
    IF i > Len(order) THEN acc
    ELSE Scan(alarms, order, i + 1,
              ScanStep(acc, alarms[order[i]].expiration, now_lower_bits, n),
              now_lower_bits, n)

\* the earliest alarm found by the scan
FindEarliest(alarms, order, t, n) ==
    Scan(alarms, order, 1, NoEarliest(n), from_u32(into_u32(t), n), n).earliest_alarm

\* the high bits of now put on the reference without looking for a wrap
RealReference_same_epoch(reference, t, n) ==
    wrapping_add(wrapping_sub(t, from_u32(into_u32(t), n)), from_u32(reference, n))

\* the borrow taken as one tick instead of 1 << 32
RealReference_borrow_one(reference, t, n) ==
    LET now_lower_bits == from_u32(into_u32(t), n)
        high_bits0 == wrapping_sub(t, now_lower_bits)
        high_bits == IF Lt(into_u32(now_lower_bits), reference)
                     THEN wrapping_sub(high_bits0, from_u32(Small(1), n))
                     ELSE high_bits0
    IN  wrapping_add(high_bits, from_u32(reference, n))

\* the reference handed to set_alarm: the high bits of now put back on the
\* 32-bit reference
RealReference(reference, t, n) ==
    LET now_lower_bits == from_u32(into_u32(t), n)
        high_bits0 == wrapping_sub(t, now_lower_bits)
        bit33 == wrapping_add(from_u32(U32(65535, 65535), n), from_u32(Small(1), n))
        high_bits == IF Lt(into_u32(now_lower_bits), reference)
                     THEN wrapping_sub(high_bits0, bit33)
                     ELSE high_bits0
    IN  wrapping_add(high_bits, from_u32(reference, n))

\* the tail of reset_active_alarm without the disarm
ProgramAlarm_no_disarm(earliest_alarm, t, n) ==
    IF ~IsEnabled(earliest_alarm) THEN hw
    ELSE HwSet(RealReference(earliest_alarm.reference, t, n),
               from_u32(earliest_alarm.dt, n))

\* what the tail of reset_active_alarm does to the hardware alarm
ProgramAlarm(earliest_alarm, t, n) ==
    IF ~IsEnabled(earliest_alarm) THEN HwDisarmed
    ELSE HwSet(RealReference(earliest_alarm.reference, t, n),
               from_u32(earliest_alarm.dt, n))

\* reset_active_alarm that programs the hardware without recording its choice
reset_active_alarm_keeps_cache(alarms, order, t, n) ==
    [next_alarm |-> next_alarm,
     hw |-> ProgramAlarm(FindEarliest(alarms, order, t, n), t, n)]

\* reset_active_alarm as a whole: the new next_alarm and hardware programming
reset_active_alarm(alarms, order, t, n) ==
    LET earliest_alarm == FindEarliest(alarms, order, t, n)
    IN  [next_alarm |-> earliest_alarm, hw |-> ProgramAlarm(earliest_alarm, t, n)]

\* the scan reads the records as they were before the handler changed them
Resets_stale(alarms) ==
    {reset_active_alarm(app_alarms, order, now, width) : order \in Orders(live)}

\* the outcomes of reset_active_alarm over the orders the grant iterator can
\* take
Resets(alarms) ==
    {reset_active_alarm(alarms, order, now, width) : order \in Orders(live)}

----------------------------------------------------------------------------
(* Driver::command                                                         *)

\* rearm counting the alarm as newly armed whatever the record held
rearm_always_counts(td, armed, reference, dt) ==
    [td |-> [td EXCEPT !.expiration = Enabled(reference, dt)],
     num_armed |-> armed + 1,
     result |-> SuccessU32(wrapping_add(reference, dt)),
     reset |-> TRUE]

\* rearm that arms only a record that was Disabled
rearm_if_disabled(td, armed, reference, dt) ==
    [td |-> IF IsEnabled(td.expiration) THEN td
            ELSE [td EXCEPT !.expiration = Enabled(reference, dt)],
     num_armed |-> IF ~IsEnabled(td.expiration) THEN armed + 1 ELSE armed,
     result |-> SuccessU32(wrapping_add(reference, dt)),
     reset |-> TRUE]

\* rearm refusing a record that is already armed
rearm_busy(td, armed, reference, dt) ==
    IF IsEnabled(td.expiration)
    THEN [td |-> td, num_armed |-> armed, result |-> Failure("BUSY"),
          reset |-> FALSE]
    ELSE [td |-> [td EXCEPT !.expiration = Enabled(reference, dt)],
          num_armed |-> armed + 1,
          result |-> SuccessU32(wrapping_add(reference, dt)),
          reset |-> TRUE]

\* rearm that leaves the count of armed alarms alone
rearm_never_counts(td, armed, reference, dt) ==
    [td |-> [td EXCEPT !.expiration = Enabled(reference, dt)],
     num_armed |-> armed,
     result |-> SuccessU32(wrapping_add(reference, dt)),
     reset |-> TRUE]

\* the rearm closure: the new record, the new num_armed, the return value
rearm(td, armed, reference, dt) ==
    [td |-> [td EXCEPT !.expiration = Enabled(reference, dt)],
     num_armed |-> IF ~IsEnabled(td.expiration) THEN armed + 1 ELSE armed,
     result |-> SuccessU32(wrapping_add(reference, dt)),
     reset |-> TRUE]

NoChange(td, armed, result) ==
    [td |-> td, num_armed |-> armed, result |-> result, reset |-> FALSE]

\* stop without the test for an alarm that is already stopped
stop_unchecked(td, armed) ==
    [td |-> [td EXCEPT !.expiration = Disabled],
     num_armed |-> IF armed > 0 THEN armed - 1 ELSE 0,
     result |-> Success,
     reset |-> TRUE]

\* stop that counts the alarm out but leaves the record armed
stop_keeps_record(td, armed) ==
    IF ~IsEnabled(td.expiration)
    THEN NoChange(td, armed, Failure("ALREADY"))
    ELSE [td |-> td, num_armed |-> armed - 1, result |-> Success, reset |-> TRUE]

\* stop that does not ask for the next alarm to be recomputed
stop_no_reset(td, armed) ==
    IF ~IsEnabled(td.expiration)
    THEN NoChange(td, armed, Failure("ALREADY"))
    ELSE [td |-> [td EXCEPT !.expiration = Disabled],
          num_armed |-> armed - 1,
          result |-> Success,
          reset |-> FALSE]

\* command 3: stop the alarm if it is outstanding
stop(td, armed) ==
    IF ~IsEnabled(td.expiration)
    THEN NoChange(td, armed, Failure("ALREADY"))
    ELSE [td |-> [td EXCEPT !.expiration = Disabled],
          num_armed |-> armed - 1,
          result |-> Success,
          reset |-> TRUE]

\* set absolute with a dt that saturates at 0 for a target below now
set_absolute_saturating(td, armed, data, t) ==
    LET reference == into_u32(t)
        dt == IF Lt(data, reference) THEN Small(0)
              ELSE wrapping_sub(data, reference)
    IN  rearm(td, armed, reference, dt)

\* command 4: set absolute expiration
set_absolute(td, armed, data, t) ==
    LET reference == into_u32(t)
        future_time == data
        dt == wrapping_sub(future_time, reference)
    IN  rearm(td, armed, reference, dt)

\* set relative taking its argument for a target time
set_relative_as_target(td, armed, data, t) ==
    rearm(td, armed, into_u32(t), wrapping_sub(data, into_u32(t)))

\* command 5: set relative expiration
set_relative(td, armed, data, t) == rearm(td, armed, into_u32(t), data)

\* command 6: set absolute expiration with reference point
set_with_reference(td, armed, data, data2) == rearm(td, armed, data, data2)

\* capture time that asks for the next alarm to be recomputed
capture_time_resets(td, armed, t) ==
    [td |-> td, num_armed |-> armed, result |-> SuccessU32(into_u32(t)),
     reset |-> TRUE]

\* command 2: read the current clock value
capture_time(td, armed, t) == NoChange(td, armed, SuccessU32(into_u32(t)))

\* an unknown command that falls into the stop arm
unsupported_stops(td, armed) ==
    IF IsEnabled(td.expiration) THEN stop(td, armed)
    ELSE NoChange(td, armed, Failure("NOSUPPORT"))

\* the default arm: an unknown command number
unsupported(td, armed) == NoChange(td, armed, Failure("NOSUPPORT"))

\* the body of the closure passed to app_alarms.enter
CommandBody(td, armed, cmd_type, data, data2, t) ==
    CASE cmd_type = 0 -> NoChange(td, armed, Success)
      [] cmd_type = 1 -> NoChange(td, armed, SuccessU32(frequency))
      [] cmd_type = 2 -> capture_time(td, armed, t)
      [] cmd_type = 3 -> stop(td, armed)
      [] cmd_type = 4 -> set_absolute(td, armed, data, t)
      [] cmd_type = 5 -> set_relative(td, armed, data, t)
      [] cmd_type = 6 -> set_with_reference(td, armed, data, data2)
      [] OTHER -> unsupported(td, armed)

\* the error of app_alarms.enter for a process that does not exist
EnterError == Failure("InvalidProcess")

\* whether app_alarms.enter finds the process
\* (mutated: every identity is taken for a process)
Entered_any(caller_id) == caller_id \in Procs

Entered(caller_id) == caller_id \in live

command(cmd_type, data, data2, caller_id) ==
    IF ~Entered(caller_id)
    THEN /\ last' = [op |-> "command", cmd |-> cmd_type]
         /\ ret' = EnterError
         /\ upcalls' = NoUpcalls
         /\ UNCHANGED <<width, live, now, ticks, app_alarms, num_armed,
                        next_alarm, hw>>
    ELSE
    LET r == CommandBody(app_alarms[caller_id], num_armed, cmd_type, data, data2, now)
        alarms == [app_alarms EXCEPT ![caller_id] = r.td]
    IN  /\ last' = [op |-> "command", cmd |-> cmd_type]
        /\ app_alarms' = alarms
        /\ num_armed' = r.num_armed
        /\ ret' = r.result
        /\ IF r.reset
           THEN \E prog \in Resets(alarms) :
                   /\ next_alarm' = prog.next_alarm
                   /\ hw' = prog.hw
           ELSE UNCHANGED <<next_alarm, hw>>
        /\ upcalls' = NoUpcalls
        /\ UNCHANGED <<width, live, now, ticks>>

----------------------------------------------------------------------------
(* Driver::subscribe                                                       *)

\* the upcalls a process can pass
Callbacks == {"cb"}

\* subscribe numbers; 1 stands for every unknown one
SubscribeNums == {0, 1}

SubscribeOk(old) == [kind |-> "Ok", value |-> old]

SubscribeErr(callback, e) == [kind |-> "Err", value |-> callback, err |-> e]

\* one callback slot for the whole driver: the swap reaches every record
subscribe_shared(subscribe_num, callback, app_id) ==
    /\ last' = [op |-> "subscribe", cmd |-> subscribe_num]
    /\ IF subscribe_num = 0 /\ Entered(app_id)
       THEN /\ app_alarms' = [p \in Procs |->
                                 [app_alarms[p] EXCEPT !.callback = callback]]
            /\ ret' = SubscribeOk(app_alarms[app_id].callback)
       ELSE /\ UNCHANGED app_alarms
            /\ ret' = SubscribeErr(callback, "NOSUPPORT")
    /\ upcalls' = NoUpcalls
    /\ UNCHANGED <<width, live, now, ticks, num_armed, next_alarm, hw>>

subscribe(subscribe_num, callback, app_id) ==
    /\ last' = [op |-> "subscribe", cmd |-> subscribe_num]
    /\ IF subscribe_num = 0
       THEN IF Entered(app_id)
            THEN /\ app_alarms' = [app_alarms EXCEPT ![app_id].callback = callback]
                 /\ ret' = SubscribeOk(app_alarms[app_id].callback)
            ELSE /\ UNCHANGED app_alarms
                 /\ ret' = SubscribeErr(callback, EnterError.err)
       ELSE /\ UNCHANGED app_alarms
            /\ ret' = SubscribeErr(callback, "NOSUPPORT")
    /\ upcalls' = NoUpcalls
    /\ UNCHANGED <<width, live, now, ticks, num_armed, next_alarm, hw>>

----------------------------------------------------------------------------
(* AlarmClient::alarm, the handler of the hardware alarm interrupt         *)

\* the test fires only once now is strictly past reference + dt
Expired_past_end(expiration, now32) ==
    /\ IsEnabled(expiration)
    /\ Lt(expiration.dt, wrapping_sub(now32, expiration.reference))

\* the test compares without wrapping: now below reference counts as passed
Expired_no_wrap(expiration, now32) ==
    /\ IsEnabled(expiration)
    /\ \/ Lt(now32, expiration.reference)
       \/ Leq(wrapping_add(expiration.reference, expiration.dt), now32)

\* the test takes an interval with dt = 0 for the whole circle
Expired_empty_is_full(expiration, now32) ==
    /\ IsEnabled(expiration)
    /\ expiration.dt # Small(0)
    /\ ~within_range(now32, expiration.reference,
                     wrapping_add(expiration.reference, expiration.dt))

\* the sweep's test on one record: now is outside [reference, reference + dt)
Expired(expiration, now32) ==
    /\ IsEnabled(expiration)
    /\ ~within_range(now32, expiration.reference,
                     wrapping_add(expiration.reference, expiration.dt))

\* the sweep stops after the first record it fires
Swept_first_only(alarms, now32) ==
    [p \in Procs |->
        IF /\ p \in live /\ Expired(alarms[p].expiration, now32)
           /\ \A q \in live : q < p => ~Expired(alarms[q].expiration, now32)
        THEN [alarms[p] EXCEPT !.expiration = Disabled]
        ELSE alarms[p]]

\* the sweep dispatches without disabling the record
Swept_leaves_enabled(alarms, now32) == alarms

\* the records after the sweep
Swept(alarms, now32) ==
    [p \in Procs |->
        IF p \in live /\ Expired(alarms[p].expiration, now32)
        THEN [alarms[p] EXCEPT !.expiration = Disabled]
        ELSE alarms[p]]

\* the callback arguments in the wrong order
Scheduled_swapped(alarms, now32) ==
    [p \in Procs |->
        IF p \in live /\ Expired(alarms[p].expiration, now32)
        THEN << <<wrapping_add(alarms[p].expiration.reference,
                               alarms[p].expiration.dt),
                  now32,
                  Small(0)>> >>
        ELSE <<>>]

\* the callbacks the sweep schedules
Scheduled(alarms, now32) ==
    [p \in Procs |->
        IF p \in live /\ Expired(alarms[p].expiration, now32)
        THEN << <<now32,
                  wrapping_add(alarms[p].expiration.reference,
                               alarms[p].expiration.dt),
                  Small(0)>> >>
        ELSE <<>>]

NumExpired(alarms, now32) ==
    Cardinality({p \in live : Expired(alarms[p].expiration, now32)})

alarm ==
    LET now32 == into_u32(now)
        alarms == Swept(app_alarms, now32)
        armed == num_armed - NumExpired(app_alarms, now32)
    IN  /\ app_alarms' = alarms
        /\ num_armed' = armed
        /\ upcalls' = Scheduled(app_alarms, now32)
        /\ IF armed = 0
           THEN /\ hw' = HwDisarmed
                /\ UNCHANGED next_alarm
           ELSE \E prog \in Resets(alarms) :
                   /\ next_alarm' = prog.next_alarm
                   /\ hw' = prog.hw
        /\ ret' = NoReturn
        /\ last' = [op |-> "alarm"]
        /\ UNCHANGED <<width, live, now, ticks>>

----------------------------------------------------------------------------
(* The hardware counter                                                    *)

Tick(steps) ==
    /\ ticks < MaxTicks
    /\ \E step \in steps :
          now' = wrapping_add(now, from_u32(step, width))
    /\ ticks' = ticks + 1
    /\ ret' = NoReturn
    /\ upcalls' = NoUpcalls
    /\ last' = [op |-> "tick"]
    /\ UNCHANGED <<width, live, app_alarms, num_armed, next_alarm, hw>>

----------------------------------------------------------------------------

\* a ReadWriteAppSlice: its length and its bytes; the default slice is empty
NullSlice == [len |-> 0, bytes |-> <<>>]

\* Console::new with App::default in every grant record: no buffer allowed,
\* nothing to write, no transmission, the static transmit buffer in place
App_default ==
    [write_buffer |-> 0, write_len |-> 0, write_remaining |-> 0,
     pending_write |-> FALSE]

NoApp == 0

UartIdle == [busy |-> FALSE]

Console_new ==
    /\ apps = [p \in Procs |-> App_default]
    /\ tx_in_progress = NoApp
    /\ tx_buffer = TRUE
    /\ uart = UartIdle

\* Mlx90614SMBus::new: Idle, the buffer in place, no bus transfer, the
\* default upcall, no temperature handed to the temperature client
NoUpcall == 0

NoBuffer == <<>>

BusIdle == [busy |-> FALSE]

Mlx90614SMBus_new ==
    /\ state = "Idle"
    /\ buffer = <<0, 0>>
    /\ smbus_temp = BusIdle
    /\ upcall = NoUpcall
    /\ temperature = <<>>

\* AlarmDriver::new, for a timer of width n, the processes ps and the counter
\* at t, next to a new console and a new thermometer driver; enabled and
\* counts are the snapshot flag and the snapshot counters
started(n, ps, t, enabled, counts) ==
    /\ ros_enabled = enabled
    /\ ros_region = [p \in Procs |-> NullSlice]
    /\ ros_count = counts
    /\ Console_new
    /\ Mlx90614SMBus_new
    /\ panicked = FALSE
    /\ width = n
    /\ live = ps
    /\ now = t
    /\ app_alarms = [p \in Procs |-> AlarmData_default]
    /\ num_armed = 0
    /\ next_alarm = Disabled
    /\ hw = HwUntouched
    /\ ret = NoReturn
    /\ upcalls = NoUpcalls
    /\ last = [op |-> "init"]
    /\ ticks = 0
    /\ stopped = {}

new(n, ps, t) == started(n, ps, t, FALSE, [p \in Procs |-> Small(0)])

\* two processes, 32-bit and 64-bit timers
Init == \E n \in Widths : \E t \in StartNows(n) : new(n, {1, 2}, t)

\* a command of one process, with arguments from the given sets
CommandOf(caller_id, cmds, targets, dts, refs) ==
    \E cmd_type \in cmds :
        \/ /\ cmd_type \in {4, 5}
           /\ \E data \in (IF cmd_type = 4 THEN targets ELSE dts) :
                 command(cmd_type, data, Small(0), caller_id)
        \/ /\ cmd_type = 6
           /\ \E a \in refs : command(cmd_type, a[1], a[2], caller_id)
        \/ /\ cmd_type \notin {4, 5, 6}
           /\ command(cmd_type, Small(0), Small(0), caller_id)

\* a command of a live process
Command(cmds, targets, dts, refs) ==
    /\ \E caller_id \in live : CommandOf(caller_id, cmds, targets, dts, refs)
    /\ UNCHANGED <<stopped, elsewhere>>

\* the interrupt handler, and the counter moving on
Interrupt == alarm /\ UNCHANGED <<stopped, elsewhere>>

Advance(steps) == Tick(steps) /\ UNCHANGED <<stopped, elsewhere>>

Next == Command(Commands, AbsArgs, RelArgs, RefArgs) \/ Interrupt \/ Advance(TickSteps)

Spec == Init /\ [][Next]_vars

\* two processes on a timer whose low 32 bits are about to wrap, in steps of
\* 8 ticks
InitWrap == \E n \in Widths : new(n, {1, 2}, from_u32(U32(65535, 65520), n))

NextWrap ==
    Command(Commands, WrapAbs, WrapRels, WrapRefs) \/ Interrupt \/ Advance(WrapSteps)

SpecWrap == InitWrap /\ [][NextWrap]_vars

\* three processes
InitSweep == new(Limbs32, {1, 2, 3}, Small(120))

NextSweep ==
    Command(SweepCommands, AbsArgs, SweepRels, SweepRefs) \/ Interrupt
        \/ Advance(TickSteps)

SpecSweep == InitSweep /\ [][NextSweep]_vars

\* two processes and the identity of a process that does not exist; stopped
\* records who stopped its alarm and has not set one since
InitAudit == new(Limbs32, {1, 2}, Small(120))

StoppedAfter(caller_id) ==
    IF last'.cmd = 3 /\ ret' = Success THEN stopped \cup {caller_id}
    ELSE IF last'.cmd \in {4, 5, 6} /\ ret'.kind = "SuccessU32"
         THEN stopped \ {caller_id}
         ELSE stopped

CommandAudit ==
    \E caller_id \in Procs :
        /\ CommandOf(caller_id, Commands, AbsArgs, RelArgs, AuditRefs)
        /\ stopped' = StoppedAfter(caller_id)
        /\ UNCHANGED elsewhere

NextAudit == CommandAudit \/ Interrupt \/ Advance(TickSteps)

SpecAudit == InitAudit /\ [][NextAudit]_vars

TypeOK ==
    /\ width \in Widths
    /\ Len(now) = width
    /\ num_armed \in 0..Cardinality(Procs)

----------------------------------------------------------------------------
(* Vocabulary of the properties                                            *)

EnabledProcs == {p \in Procs : IsEnabled(app_alarms[p].expiration)}

\* the low 32 bits of the counter
now_low == into_u32(now)

\* the step just taken changed, or could have changed, the set of alarms
AfterStop == last.op = "command" /\ last.cmd = 3 /\ ret = Success

AfterSet == last.op = "command" /\ last.cmd \in {4, 5, 6}

AfterAlarm == last.op = "alarm"

\* ticks left until the client's reference + dt, modulo 2^32; zero once the
\* counter has left [reference, reference + dt)
ClientRemaining(e) ==
    IF Lt(wrapping_sub(now_low, e.reference), e.dt)
    THEN wrapping_sub(e.dt, wrapping_sub(now_low, e.reference))
    ELSE Small(0)

\* ticks left until the hardware alarm fires: set_alarm(reference, dt) fires
\* when the counter leaves [reference, reference + dt), at once if it is
\* already outside
HwRemaining ==
    IF Lt(wrapping_sub(now, hw.reference), hw.dt)
    THEN wrapping_sub(hw.dt, wrapping_sub(now, hw.reference))
    ELSE Zero(width)

----------------------------------------------------------------------------
(* C1: in every reachable state num_armed equals the number of client      *)
(* records whose expiration is Enabled.                                    *)
C1_CountInvariant == num_armed = Cardinality(EnabledProcs)

\* a sweep fired one client and left another one armed
C1_Witness ==
    /\ AfterAlarm
    /\ num_armed = 1
    /\ \E p \in live : upcalls[p] # <<>>

(* C2: after every state-changing command and every alarm interrupt, if    *)
(* num_armed > 0 the hardware alarm fires at or before the earliest        *)
(* reference + dt of the Enabled clients, measured from now.               *)
C2_FiresNoLaterThanEarliest ==
    (AfterStop \/ AfterSet \/ AfterAlarm) /\ num_armed > 0
        => /\ hw.op = "set_alarm"
           /\ \A p \in EnabledProcs :
                 Leq(HwRemaining,
                     from_u32(ClientRemaining(app_alarms[p].expiration), width))

(* C3: after every successful stop command and every alarm interrupt that  *)
(* leaves num_armed = 0, the last operation applied to the hardware alarm  *)
(* is disarm.                                                              *)
C3_DisarmedWhenNoneArmed ==
    (AfterStop \/ AfterAlarm) /\ num_armed = 0 => hw = HwDisarmed

\* the last armed client stopped its alarm
C3_Witness ==
    /\ AfterStop
    /\ EnabledProcs = {}
    /\ next_alarm = Disabled
    /\ hw = HwDisarmed

(* C4: a stop command of a client whose record is Disabled fails with      *)
(* ALREADY and leaves every record, num_armed, next_alarm and the hardware *)
(* programming as they were.                                               *)
C4_StopDisabledChangesNothing ==
    [][\A p \in live :
          /\ ~IsEnabled(app_alarms[p].expiration)
          /\ command(3, Small(0), Small(0), p)
          => /\ ret' = Failure("ALREADY")
             /\ UNCHANGED <<app_alarms, num_armed, next_alarm, hw>>]_vars

\* a stop was refused while the other client's alarm stays programmed
C4_Witness ==
    /\ last = [op |-> "command", cmd |-> 3]
    /\ ret = Failure("ALREADY")
    /\ num_armed = 1
    /\ hw.op = "set_alarm"

(* C5: command 6 with any reference and dt leaves the caller's record      *)
(* Enabled{reference, dt} and returns (reference + dt) mod 2^32, whatever  *)
(* the record held before.                                                 *)
C5_ArmRoundTrip ==
    [][\A p \in live : \A a \in RefArgs :
          command(6, a[1], a[2], p)
          => /\ app_alarms'[p].expiration = Enabled(a[1], a[2])
             /\ ret' = SuccessU32(wrapping_add(a[1], a[2]))]_vars

\* 0xFFFFFFF0 + 0x20 was armed over another alarm and 0x10 returned
C5_Witness ==
    /\ last = [op |-> "command", cmd |-> 6]
    /\ ret = SuccessU32(Small(16))
    /\ num_armed = 1
    /\ next_alarm = Enabled(U32(65535, 65520), Small(32))
    /\ \E p \in live :
          app_alarms[p].expiration = Enabled(U32(65535, 65520), Small(32))

(* C6: on a 32-bit counter, a client armed with reference 0xFFFFFFF0 and   *)
(* dt 0x20 is neither dispatched nor disabled by an alarm interrupt taken  *)
(* while now_low is in 0xFFFFFFF0..0xFFFFFFFF or 0x0..0xF, and is          *)
(* dispatched by the one taken when now_low is 0x10.                       *)
C6_WrappingAlarm ==
    [][\A p \in live :
          /\ last'.op = "alarm"
          /\ width = Limbs32
          /\ app_alarms[p].expiration = Enabled(U32(65535, 65520), Small(32))
          => /\ (Leq(U32(65535, 65520), now_low) \/ Lt(now_low, Small(16)))
                  => /\ upcalls'[p] = <<>>
                     /\ app_alarms'[p] = app_alarms[p]
             /\ now_low = Small(16)
                  => /\ upcalls'[p] = << <<Small(16), Small(16), Small(0)>> >>
                     /\ app_alarms'[p].expiration = Disabled]_vars

\* the wrapping alarm was dispatched at 0x10
C6_Witness ==
    /\ AfterAlarm
    /\ width = Limbs32
    /\ now_low = Small(16)
    /\ \E p \in live : upcalls[p] = << <<Small(16), Small(16), Small(0)>> >>

(* C7: when three clients are Enabled with fire times t1 < t2 < t3 that    *)
(* have all elapsed, one alarm interrupt dispatches exactly one callback   *)
(* to each of them and leaves all three Disabled and num_armed = 0.        *)
FireTime(e) == wrapping_add(e.reference, e.dt)

C7_SweepFiresAllThree ==
    [][/\ last'.op = "alarm"
       /\ Cardinality(EnabledProcs) = 3
       /\ \A p, q \in EnabledProcs :
             p # q => FireTime(app_alarms[p].expiration)
                        # FireTime(app_alarms[q].expiration)
       /\ \A p \in EnabledProcs :
             ClientRemaining(app_alarms[p].expiration) = Small(0)
       => /\ \A p \in EnabledProcs :
                /\ Len(upcalls'[p]) = 1
                /\ app_alarms'[p].expiration = Disabled
          /\ num_armed' = 0]_vars

\* three callbacks with three different fire times came out of one sweep
C7_Witness ==
    /\ AfterAlarm
    /\ num_armed = 0
    /\ \A p \in {1, 2, 3} : Len(upcalls[p]) = 1
    /\ Cardinality({upcalls[p][1][2] : p \in {1, 2, 3}}) = 3

(* C8: on a 64-bit timer whose now is 0x1_0000_0050, a selected candidate  *)
(* with reference 0xFFFFFFF0 is programmed with the reference              *)
(* 0x0_FFFFFFF0, not 0x1_FFFFFFF0.                                         *)
C8_ReferenceInPreviousEpoch ==
    /\ AfterStop \/ AfterSet \/ AfterAlarm
    /\ width = Limbs64
    /\ now = U64(0, 1, 0, 80)
    /\ num_armed > 0
    /\ IsEnabled(next_alarm)
    /\ next_alarm.reference = U32(65535, 65520)
    => /\ hw.op = "set_alarm"
       /\ hw.reference = U64(0, 0, 65535, 65520)
       /\ hw.reference # U64(0, 1, 65535, 65520)

\* the candidate with reference 0xFFFFFFF0 was programmed at 0x1_0000_0050
C8_Witness ==
    /\ AfterSet
    /\ now = U64(0, 1, 0, 80)
    /\ next_alarm = Enabled(U32(65535, 65520), Small(32))
    /\ hw = HwSet(U64(0, 0, 65535, 65520), U64(0, 0, 0, 32))

(* C9: with A = Enabled{100, 50}, B = Enabled{120, 10} and now = 120 the   *)
(* recompute selects B: next_alarm is B and set_alarm gets reference 120   *)
(* and dt 10, in whichever order the scan visits A and B.                  *)
C9_ScenarioSelectsB ==
    /\ AfterStop \/ AfterSet \/ AfterAlarm
    /\ now_low = Small(120)
    /\ \E a, b \in live :
          /\ app_alarms[a].expiration = Enabled(Small(100), Small(50))
          /\ app_alarms[b].expiration = Enabled(Small(120), Small(10))
          /\ EnabledProcs = {a, b}
    => /\ next_alarm = Enabled(Small(120), Small(10))
       /\ hw.op = "set_alarm"
       /\ into_u32(hw.reference) = Small(120)
       /\ hw.reference = now
       /\ hw.dt = from_u32(Small(10), width)

\* B was armed first and A second, so that a scan in grant order meets B
\* first
C9_Witness ==
    /\ last = [op |-> "command", cmd |-> 6]
    /\ ret = SuccessU32(Small(150))
    /\ now_low = Small(120)
    /\ app_alarms[1].expiration = Enabled(Small(120), Small(10))
    /\ app_alarms[2].expiration = Enabled(Small(100), Small(50))
    /\ next_alarm = Enabled(Small(120), Small(10))

(* C10: an alarm interrupt disables and dispatches an Enabled record if    *)
(* and only if (now_low - reference) mod 2^32 >= dt; every other Enabled   *)
(* record keeps its expiration, stays counted in num_armed and gets no     *)
(* callback.                                                               *)
Elapsed(e) == Leq(e.dt, wrapping_sub(now_low, e.reference))

C10_SweepFiresExactlyElapsed ==
    [][last'.op = "alarm"
       => /\ \A p \in EnabledProcs :
                IF Elapsed(app_alarms[p].expiration)
                THEN /\ app_alarms'[p].expiration = Disabled
                     /\ Len(upcalls'[p]) = 1
                ELSE /\ app_alarms'[p] = app_alarms[p]
                     /\ upcalls'[p] = <<>>
          /\ \A p \in Procs \ EnabledProcs :
                /\ app_alarms'[p] = app_alarms[p]
                /\ upcalls'[p] = <<>>
          /\ num_armed' = Cardinality({p \in EnabledProcs :
                                         ~Elapsed(app_alarms[p].expiration)})]_vars

\* one sweep fired a client at its very end point and kept another armed
C10_Witness ==
    /\ AfterAlarm
    /\ num_armed = 1
    /\ \E p, q \in live :
          /\ upcalls[p] # <<>>
          /\ upcalls[p][1][1] = upcalls[p][1][2]
          /\ IsEnabled(app_alarms[q].expiration)
          /\ ~Elapsed(app_alarms[q].expiration)
          /\ upcalls[q] = <<>>

(* C11: every callback scheduled by an alarm interrupt carries (now_low    *)
(* read by that sweep, (reference + dt) mod 2^32 of the record it fires,   *)
(* 0), in that order; the callbacks of one sweep share the first value.    *)
C11_CallbackArguments ==
    [][last'.op = "alarm"
       => \A p \in Procs :
             upcalls'[p] # <<>>
             => /\ IsEnabled(app_alarms[p].expiration)
                /\ Len(upcalls'[p]) = 1
                /\ upcalls'[p][1] =
                      <<now_low, FireTime(app_alarms[p].expiration), Small(0)>>
                /\ \A q \in Procs :
                      upcalls'[q] # <<>> => upcalls'[q][1][1] = upcalls'[p][1][1]]_vars

\* one sweep at 152 fired the alarms due at 150 and at 130
C11_Witness ==
    /\ AfterAlarm
    /\ now_low = Small(152)
    /\ {upcalls[p] : p \in live} =
          { << <<Small(152), Small(150), Small(0)>> >>,
            << <<Small(152), Small(130), Small(0)>> >> }

(* C12: after a client's stop command has succeeded, no alarm interrupt    *)
(* schedules a callback for that client until it issues a set command.     *)
C12_NoCallbackAfterStop ==
    [][last'.op = "alarm" => \A p \in stopped : upcalls'[p] = <<>>]_vars

\* a sweep past both fire times fired the other client only
C12_Witness ==
    /\ AfterAlarm
    /\ now_low = Small(152)
    /\ \E p, q \in live :
          /\ p \in stopped
          /\ upcalls[p] = <<>>
          /\ upcalls[q] # <<>>

(* C13: a command of a process identity that resolves to no record fails   *)
(* with the process error for every command number and changes no record,  *)
(* num_armed, next_alarm or hardware programming.                          *)
C13_InvalidProcessChangesNothing ==
    [][\A p \in Procs \ live :
          CommandOf(p, Commands, AbsArgs, RelArgs, AuditRefs)
          => /\ ret' = EnterError
             /\ UNCHANGED <<app_alarms, num_armed, next_alarm, hw>>]_vars

\* a set command of the missing process was refused while an alarm is armed
C13_Witness ==
    /\ last = [op |-> "command", cmd |-> 6]
    /\ ret = EnterError
    /\ num_armed = 1
    /\ hw.op = "set_alarm"
    /\ app_alarms[3] = AlarmData_default

(* C14: a command with a number outside 0..6 from a valid process fails    *)
(* with NOSUPPORT and changes no record, num_armed, next_alarm or hardware *)
(* programming.                                                            *)
C14_UnknownCommandChangesNothing ==
    [][last'.op = "command" /\ last'.cmd \notin 0..6
       => /\ ret' = Failure("NOSUPPORT")
          /\ UNCHANGED <<app_alarms, num_armed, next_alarm, hw>>]_vars

\* an unknown command was refused while both clients are armed
C14_Witness ==
    /\ last = [op |-> "command", cmd |-> 7]
    /\ ret = Failure("NOSUPPORT")
    /\ num_armed = 2
    /\ hw.op = "set_alarm"

(* C15: arming with dt = 0 (command 5, or command 6 with any reference)    *)
(* succeeds and stores Enabled{reference, 0}; when the recompute selects   *)
(* it the hardware is programmed with that reference and dt 0; the next    *)
(* alarm interrupt fires the client whatever now_low is.                   *)
ZeroDtStored(p, reference) ==
    /\ app_alarms'[p].expiration = Enabled(reference, Small(0))
    /\ ret' = SuccessU32(reference)
    /\ next_alarm' = Enabled(reference, Small(0))
          => /\ hw'.op = "set_alarm"
             /\ into_u32(hw'.reference) = reference
             /\ hw'.dt = Zero(width)

C15_ZeroDtFiresAtOnce ==
    [][/\ \A p \in live :
             /\ command(5, Small(0), Small(0), p) => ZeroDtStored(p, now_low)
             /\ \A a \in SweepRefs :
                   a[2] = Small(0) /\ command(6, a[1], a[2], p)
                   => ZeroDtStored(p, a[1])
       /\ last'.op = "alarm"
             => \A p \in EnabledProcs :
                   app_alarms[p].expiration.dt = Small(0)
                   => /\ Len(upcalls'[p]) = 1
                      /\ app_alarms'[p].expiration = Disabled]_vars

\* an alarm armed with reference 100 and dt 0 was fired at 136
C15_Witness ==
    /\ AfterAlarm
    /\ \E p \in live :
          upcalls[p] = << <<Small(136), Small(100), Small(0)>> >>

(* C16: command 4 with any 32-bit target returns the target as fire time   *)
(* and stores Enabled{now_low, (target - now_low) mod 2^32}, also when the *)
(* target is numerically below now_low.                                    *)
C16_SetAbsolute ==
    [][\A p \in live : \A target \in AbsArgs :
          command(4, target, Small(0), p)
          => /\ ret' = SuccessU32(target)
             /\ app_alarms'[p].expiration =
                   Enabled(now_low, wrapping_sub(target, now_low))
             /\ wrapping_add(app_alarms'[p].expiration.reference,
                             app_alarms'[p].expiration.dt) = target]_vars

\* the target 104 was set at now_low = 120: dt is 2^32 - 16
C16_Witness ==
    /\ last = [op |-> "command", cmd |-> 4]
    /\ ret = SuccessU32(Small(104))
    /\ now_low = Small(120)
    /\ \E p \in live :
          app_alarms[p].expiration = Enabled(Small(120), U32(65535, 65520))

(* C17: command 5 with any 32-bit dt stores Enabled{low 32 bits of now,    *)
(* dt} and returns (now_low + dt) mod 2^32.                                *)
C17_SetRelative ==
    [][\A p \in live : \A dt \in WrapRels :
          command(5, dt, Small(0), p)
          => /\ app_alarms'[p].expiration = Enabled(into_u32(now), dt)
             /\ ret' = SuccessU32(wrapping_add(into_u32(now), dt))]_vars

\* on the 64-bit timer at 0x0_FFFFFFF8, dt = 8 returned the fire time 0
C17_Witness ==
    /\ last = [op |-> "command", cmd |-> 5]
    /\ width = Limbs64
    /\ now = U64(0, 0, 65535, 65528)
    /\ ret = SuccessU32(Small(0))
    /\ \E p \in live :
          app_alarms[p].expiration = Enabled(U32(65535, 65528), Small(8))

(* C18: commands 0, 1 and 2 of a valid process always succeed and change   *)
(* no record, num_armed, next_alarm or hardware programming; command 2     *)
(* returns the low 32 bits of the counter.                                 *)
C18_ReadOnlyCommands ==
    [][last'.op = "command" /\ last'.cmd \in {0, 1, 2}
       => /\ UNCHANGED <<app_alarms, num_armed, next_alarm, hw>>
          /\ last'.cmd = 0 => ret' = Success
          /\ last'.cmd = 1 => ret' = SuccessU32(frequency)
          /\ last'.cmd = 2 => ret' = SuccessU32(SubSeq(now, 1, 2))]_vars

\* the 64-bit counter 0x1_0000_0050 was read as 0x50 while an alarm is armed
C18_Witness ==
    /\ last = [op |-> "command", cmd |-> 2]
    /\ now = U64(0, 1, 0, 80)
    /\ ret = SuccessU32(Small(80))
    /\ num_armed = 1
    /\ hw.op = "set_alarm"

(* C19: for a valid process the set commands 4, 5 and 6 never fail; the    *)
(* only failures are ALREADY from command 3 on a Disabled record and       *)
(* NOSUPPORT from an unknown command number.                               *)
C19_OnlyTwoFailures ==
    [][last'.op = "command"
       => /\ last'.cmd \in {4, 5, 6} => ret'.kind = "SuccessU32"
          /\ \A p \in live :
                command(3, Small(0), Small(0), p) /\ ret'.kind = "Failure"
                => /\ ~IsEnabled(app_alarms[p].expiration)
                   /\ UNCHANGED <<app_alarms, num_armed, next_alarm, hw>>
          /\ ret'.kind = "Failure"
                => \/ /\ last'.cmd = 3
                      /\ ret'.err = "ALREADY"
                      /\ \E p \in live : ~IsEnabled(app_alarms[p].expiration)
                   \/ /\ last'.cmd \notin 0..6
                      /\ ret'.err = "NOSUPPORT"]_vars

\* a set command succeeded with both clients armed before and after it
C19_Witness ==
    /\ AfterSet
    /\ ret.kind = "SuccessU32"
    /\ num_armed = 2
    /\ \A p \in live : app_alarms[p].expiration = Enabled(Small(100), Small(50))

----------------------------------------------------------------------------
(* Vocabulary of the properties about the scan of reset_active_alarm       *)

\* the step just taken ran reset_active_alarm
Recomputed ==
    \/ AfterStop
    \/ AfterSet /\ ret.kind = "SuccessU32"
    \/ AfterAlarm /\ num_armed > 0

\* the earliest alarm held by the scan when it reaches the i-th record
EarliestBefore(order, i) ==
    Scan(app_alarms, SubSeq(order, 1, i - 1), 1, NoEarliest(width),
         from_u32(now_low, width), width).earliest_alarm

\* the first test of the scan: the record's end lies in the interval of the
\* earliest alarm
EndsInside(expiration, earliest, n) ==
    LET temp_earliest_reference == from_u32(earliest.reference, n)
    IN  within_range(wrapping_add(from_u32(expiration.reference, n),
                                  from_u32(expiration.dt, n)),
                     temp_earliest_reference,
                     wrapping_add(temp_earliest_reference,
                                  from_u32(earliest.dt, n)))

(* C21: whenever the scan replaces the earliest alarm by a record whose    *)
(* end lies in the earliest alarm's [reference, end), the adopted record   *)
(* has no more ticks left from now than the replaced one.                  *)
C21_AdoptedNoLater ==
    Recomputed
    => \A order \in Orders(live) : \A i \in 1..Len(order) :
          LET earliest == EarliestBefore(order, i)
              expiration == app_alarms[order[i]].expiration
          IN  /\ IsEnabled(expiration)
              /\ IsEnabled(earliest)
              /\ EndsInside(expiration, earliest, width)
              => Leq(ClientRemaining(expiration), ClientRemaining(earliest))


(* C22: whenever reset_active_alarm runs while some Enabled client has      *)
(* already elapsed, the alarm it selects and programs is itself one that   *)
(* has elapsed, in every order of the scan.                                *)
C22_ElapsedCandidate ==
    /\ Recomputed
    /\ \E p \in EnabledProcs : Expired(app_alarms[p].expiration, now_low)
    => /\ IsEnabled(next_alarm)
       /\ Expired(next_alarm, now_low)
       /\ hw.op = "set_alarm"
       /\ HwRemaining = Zero(width)


----------------------------------------------------------------------------
(* The driver under a running counter: the hardware alarm raises its       *)
(* interrupt when the counter leaves [reference, reference + dt), the      *)
(* interrupt is handled before the counter moves on, and the counter       *)
(* keeps moving.  The counter is not bounded here: it wraps.               *)

\* the counter moves in quarters of the 32-bit circle
LiveStep == U32(16384, 0)

\* dt of command 5: half of the circle
LiveRels == {U32(32768, 0)}

\* (reference, dt) of command 6: an alarm that is due at once
LiveRefs == {<<Small(120), Small(0)>>}

\* stop, set relative, set with reference
LiveCommands == {3, 5, 6}

\* set_alarm(reference, dt) has expired: now is outside [reference, reference + dt)
HwDue ==
    /\ hw.op = "set_alarm"
    /\ ~within_range(now, hw.reference, wrapping_add(hw.reference, hw.dt))

InitLive == new(Limbs32, {1, 2}, Small(120))

\* a process runs only when no interrupt is waiting; process 1 arms only a
\* record that is Disabled, process 2 is free
CommandLive ==
    /\ ~HwDue
    /\ \E caller_id \in live :
          /\ CommandOf(caller_id, LiveCommands, AbsArgs, LiveRels, LiveRefs)
          /\ caller_id = 1 /\ IsEnabled(app_alarms[1].expiration) => last'.cmd = 3
    /\ UNCHANGED <<stopped, elsewhere>>

InterruptLive == HwDue /\ alarm /\ UNCHANGED <<stopped, elsewhere>>

TickLive ==
    /\ ~HwDue
    /\ now' = wrapping_add(now, from_u32(LiveStep, width))
    /\ ret' = NoReturn
    /\ upcalls' = NoUpcalls
    /\ last' = [op |-> "tick"]
    /\ UNCHANGED <<width, live, app_alarms, num_armed, next_alarm, hw, ticks,
                   stopped, elsewhere>>

NextLive == CommandLive \/ InterruptLive \/ TickLive

\* the counter is hardware and moves on however many commands are issued; a
\* waiting interrupt is handled
SpecLive ==
    InitLive /\ [][NextLive]_vars /\ SF_vars(TickLive) /\ WF_vars(InterruptLive)

(* C23: with the counter advancing, the interrupt raised when the          *)
(* programmed alarm is due and every interrupt handled, a client that      *)
(* arms its alarm and does not arm it again is eventually called back or   *)
(* stopped: its record does not stay Enabled forever, whatever the other   *)
(* client does.                                                            *)
C23_EnabledClientIsServed ==
    IsEnabled(app_alarms[1].expiration) ~> ~IsEnabled(app_alarms[1].expiration)


----------------------------------------------------------------------------
(* C24: alarms are one-shot.  A callback is dispatched only to a record    *)
(* that is Enabled, one callback at most per sweep, and leaves the record  *)
(* Disabled; a Disabled record becomes Enabled again only by a set command *)
(* of its own process.  So between two set commands of a client at most    *)
(* one callback is dispatched to it.                                       *)
C24_OneShot ==
    [][\A p \in Procs :
          /\ upcalls'[p] # <<>>
                => /\ last'.op = "alarm"
                   /\ Len(upcalls'[p]) = 1
                   /\ IsEnabled(app_alarms[p].expiration)
                   /\ app_alarms'[p].expiration = Disabled
          /\ last'.op = "alarm" /\ ~IsEnabled(app_alarms[p].expiration)
                => upcalls'[p] = <<>> /\ app_alarms'[p] = app_alarms[p]
          /\ ~IsEnabled(app_alarms[p].expiration)
                /\ IsEnabled(app_alarms'[p].expiration)
                => /\ p \in live
                   /\ CommandOf(p, {4, 5, 6}, AbsArgs, RelArgs, AuditRefs)]_vars

\* the sweep at 136 called back the client armed for 130 and left it
\* Disabled; the client armed for 150 got nothing and stays armed
C24_Witness ==
    /\ AfterAlarm
    /\ now_low = Small(136)
    /\ \E p, q \in live :
          /\ upcalls[p] = << <<Small(136), Small(130), Small(0)>> >>
          /\ app_alarms[p].expiration = Disabled
          /\ upcalls[q] = <<>>
          /\ app_alarms[q].expiration = Enabled(Small(100), Small(50))


(* C25: a set command of a client whose record is Enabled leaves num_armed *)
(* as it was and replaces the stored reference and dt by the new ones, so  *)
(* the only callback the client can get carries the new fire time;         *)
(* num_armed goes up by one exactly when the record was Disabled.          *)
ArmedCountAfterSet(p) ==
    /\ num_armed' = IF IsEnabled(app_alarms[p].expiration)
                    THEN num_armed ELSE num_armed + 1
    /\ Cardinality({q \in Procs : IsEnabled(app_alarms'[q].expiration)})
          = num_armed'

C25_RearmReplaces ==
    [][/\ \A p \in live :
            /\ \A a \in AuditRefs :
                  command(6, a[1], a[2], p)
                  => /\ ArmedCountAfterSet(p)
                     /\ app_alarms'[p].expiration = Enabled(a[1], a[2])
            /\ \A target \in AbsArgs :
                  command(4, target, Small(0), p)
                  => /\ ArmedCountAfterSet(p)
                     /\ FireTime(app_alarms'[p].expiration) = target
            /\ \A dt \in RelArgs :
                  command(5, dt, Small(0), p)
                  => /\ ArmedCountAfterSet(p)
                     /\ app_alarms'[p].expiration = Enabled(now_low, dt)
       /\ last'.op = "alarm"
            => \A p \in live :
                  upcalls'[p] # <<>>
                  => upcalls'[p][1][2] = FireTime(app_alarms[p].expiration)]_vars

\* the one armed client was called back at 136 with the fire time 130 of the
\* record it held then, and nothing is left armed
C25_Witness ==
    /\ AfterAlarm
    /\ now_low = Small(136)
    /\ num_armed = 0
    /\ \E p, q \in live :
          /\ p # q
          /\ upcalls[p] = << <<Small(136), Small(130), Small(0)>> >>
          /\ upcalls[q] = <<>>


----------------------------------------------------------------------------
(* Commands and subscribes of two processes and of an identity that is no  *)
(* process                                                                 *)

FrameCommands == {3, 5, 6, 7}

FrameRefs == {<<Small(100), Small(50)>>}

InitFrame == new(Limbs32, {1, 2}, Small(120))

SubscribeOf(app_id) ==
    \E subscribe_num \in SubscribeNums : \E callback \in Callbacks :
        subscribe(subscribe_num, callback, app_id)

CommandFrame ==
    /\ \E caller_id \in Procs :
          CommandOf(caller_id, FrameCommands, AbsArgs, RelArgs, FrameRefs)
    /\ UNCHANGED <<stopped, elsewhere>>

SubscribeFrame ==
    /\ \E app_id \in Procs : SubscribeOf(app_id)
    /\ UNCHANGED <<stopped, elsewhere>>

NextFrame == CommandFrame \/ SubscribeFrame \/ Interrupt \/ Advance(TickSteps)

SpecFrame == InitFrame /\ [][NextFrame]_vars

(* C26: a command or a subscribe of process p changes neither the          *)
(* expiration nor the callback of any other process, for every command     *)
(* number, subscribe number and argument.                                  *)
C26_OthersUntouched ==
    [][\A p \in Procs :
          \/ CommandOf(p, FrameCommands, AbsArgs, RelArgs, FrameRefs)
          \/ SubscribeOf(p)
          => \A q \in Procs \ {p} : app_alarms'[q] = app_alarms[q]]_vars

\* a process subscribed while the other one is armed and has no callback
C26_Witness ==
    /\ last = [op |-> "subscribe", cmd |-> 0]
    /\ ret = SubscribeOk("null")
    /\ \E p, q \in live :
          /\ app_alarms[p].callback = "cb"
          /\ app_alarms[q] = [expiration |-> Enabled(Small(100), Small(50)),
                              callback |-> "null"]


----------------------------------------------------------------------------
(* Vocabulary of the properties about the reference given to set_alarm     *)

\* reset_active_alarm has just programmed the hardware alarm
Programmed == Recomputed /\ IsEnabled(next_alarm) /\ hw.op = "set_alarm"

\* 2^32 at 64 bits
Bit33 == U64(0, 1, 0, 0)

\* now with its low 32 bits cleared
HighBits == Zero(Limbs32) \o SubSeq(now, Limbs32 + 1, Len(now))

\* the reference of set_alarm as the spec gives it, modulo 2^64
ExtendedReference ==
    IF Leq(next_alarm.reference, now_low)
    THEN wrapping_add(HighBits, from_u32(next_alarm.reference, Limbs64))
    ELSE wrapping_add(wrapping_sub(HighBits, Bit33),
                      from_u32(next_alarm.reference, Limbs64))

(* C27: on a 64-bit timer the reference given to set_alarm has the         *)
(* candidate's reference as its low 32 bits, lies less than 2^32 ticks     *)
(* before now modulo 2^64, and is high_bits + reference when reference <=  *)
(* now_low and high_bits - 2^32 + reference (modulo 2^64) otherwise; it    *)
(* does not exceed now when now >= 2^32 or reference <= now_low.           *)
C27_FullWidthReference ==
    width = Limbs64 /\ Programmed
    => /\ into_u32(hw.reference) = next_alarm.reference
       /\ Lt(wrapping_sub(now, hw.reference), Bit33)
       /\ hw.reference = ExtendedReference
       /\ HighBits # Zero(Limbs64) \/ Leq(next_alarm.reference, now_low)
             => Leq(hw.reference, now)

\* at 0x1_0000_0060 the candidate with reference 0xFFFFFFF0 was programmed
\* with 0x0_FFFFFFF0
C27_Witness ==
    /\ Programmed
    /\ now = U64(0, 1, 0, 96)
    /\ next_alarm.reference = U32(65535, 65520)
    /\ hw.reference = U64(0, 0, 65535, 65520)

(* C27 as stated: on a 64-bit timer the reference given to set_alarm has   *)
(* the candidate's reference as its low 32 bits, never exceeds now and is  *)
(* less than 2^32 ticks before now, for every now and every reference.     *)
C27_NeverExceedsNow ==
    width = Limbs64 /\ Programmed
    => /\ into_u32(hw.reference) = next_alarm.reference
       /\ Leq(hw.reference, now)
       /\ Lt(wrapping_sub(now, hw.reference), Bit33)


(* C28: on a 32-bit timer the width extension is the identity: 1 << 32     *)
(* built by wrapping addition is 0 and high_bits is 0, so set_alarm gets   *)
(* the candidate's stored reference and dt, whether or not the reference   *)
(* is above now_low.                                                       *)
C28_Identity32 ==
    width = Limbs32 /\ Programmed
    => /\ hw.reference = next_alarm.reference
       /\ hw.dt = next_alarm.dt
       /\ wrapping_add(from_u32(U32(65535, 65535), width),
                       from_u32(Small(1), width)) = Zero(width)
       /\ wrapping_sub(now, from_u32(now_low, width)) = Zero(width)

\* at now_low = 120 the candidate with reference 0xFFFFFFF0 was programmed
\* with its own reference and dt
C28_Witness ==
    /\ width = Limbs32
    /\ Programmed
    /\ now = Small(120)
    /\ next_alarm = Enabled(U32(65535, 65520), Small(32))
    /\ hw = HwSet(U32(65535, 65520), Small(32))


----------------------------------------------------------------------------
\* next_alarm holds the low 32 bits of what the given set_alarm programmed
Mirrors(cached, programmed) ==
    cached = Enabled(into_u32(programmed.reference), into_u32(programmed.dt))

(* C29: whenever the hardware alarm is armed, next_alarm is Enabled with   *)
(* the reference and dt last given to set_alarm (low 32 bits).  When a     *)
(* command disarms the hardware next_alarm becomes Disabled; when the      *)
(* interrupt handler disarms it because no alarm is left armed, next_alarm *)
(* keeps the expiration that was programmed last.                          *)
C29_CachedSelection ==
    [][/\ hw'.op = "set_alarm" => Mirrors(next_alarm', hw')
       /\ hw' = HwDisarmed /\ hw.op = "set_alarm"
             => IF last'.op = "alarm"
                THEN Mirrors(next_alarm', hw)
                ELSE next_alarm' = Disabled
       /\ hw' = HwDisarmed /\ hw.op # "set_alarm"
             => next_alarm' = next_alarm]_vars

\* the interrupt handler fired the last armed client and disarmed the
\* hardware; next_alarm still holds that client's expiration
C29_Witness ==
    /\ AfterAlarm
    /\ hw = HwDisarmed
    /\ num_armed = 0
    /\ next_alarm = Enabled(Small(120), Small(10))
    /\ \E p \in live : upcalls[p] = << <<Small(136), Small(130), Small(0)>> >>

(* C29 as stated: after every completed command and every alarm interrupt  *)
(* next_alarm is Enabled with the values last given to set_alarm when the  *)
(* hardware is armed, and Disabled when the hardware was disarmed.         *)
C29_MirrorsHardware ==
    last.op \in {"command", "alarm"}
    => /\ hw.op = "set_alarm" => Mirrors(next_alarm, hw)
       /\ hw = HwDisarmed => next_alarm = Disabled


(* C30: whenever reset_active_alarm calls set_alarm, the reference and dt  *)
(* it programs are the stored expiration of a client that is Enabled at    *)
(* that moment, never that of a client that was stopped or that the sweep  *)
(* has just fired; the hardware stays programmed for an Enabled client     *)
(* until the next recompute.                                               *)
C30_ProgramsEnabledClient ==
    hw.op = "set_alarm"
    => \E p \in live :
          /\ IsEnabled(app_alarms[p].expiration)
          /\ next_alarm = app_alarms[p].expiration
          /\ Mirrors(app_alarms[p].expiration, hw)

\* the sweep at 136 fired the client armed for 130 and programmed the
\* hardware for the client that is still armed, for 150
C30_Witness ==
    /\ AfterAlarm
    /\ now_low = Small(136)
    /\ hw = HwSet(Small(100), Small(50))
    /\ \E p, q \in live :
          /\ upcalls[p] = << <<Small(136), Small(130), Small(0)>> >>
          /\ app_alarms[p].expiration = Disabled
          /\ app_alarms[q].expiration = Enabled(Small(100), Small(50))


----------------------------------------------------------------------------
\* what the closure of command returns for process p in the current state
Outcome(p, cmd_type, data, data2) ==
    CommandBody(app_alarms[p], num_armed, cmd_type, data, data2, now)

----------------------------------------------------------------------------
(* The snapshot region of the alarm driver: Driver::allow_readwrite and    *)
(* ROSDriver::update_values                                                *)

\* the least length of a region that update_values writes
RosLen == 12

\* update_values calls made per process in the model
MaxUpdates == 2

\* u32::to_le_bytes and u64::to_le_bytes
RECURSIVE to_le_bytes(_)
to_le_bytes(v) ==
    IF v = <<>> THEN <<>>
    ELSE <<Head(v) % 256, Head(v) \div 256>> \o to_le_bytes(Tail(v))

\* Ticks::into_usize where usize has 32 bits, and `as u64`
into_usize(t) == into_u32(t)

as_u64(v) == from_u32(v, Limbs64)

\* a slice of n bytes as a process hands it over
Slice(n) == [len |-> n, bytes |-> [i \in 1..n |-> 0]]

RosSlices == {Slice(8), Slice(14)}

\* the snapshot counters a process can have when the model starts: none
\* taken yet, and two short of wrapping
RosStarts == {Small(0), U32(65535, 65534)}

AllowNums == {0, 1}

AllowOk(old) == [kind |-> "Ok", value |-> old]

AllowErr(slice, e) == [kind |-> "Err", value |-> slice, err |-> e]

\* allow_readwrite without the test of ros_enabled
allow_readwrite_unguarded(process_id, allow_num, slice) ==
    /\ last' = [op |-> "allow_readwrite", cmd |-> allow_num,
                app |-> process_id, slice |-> slice]
    /\ IF allow_num = 0 /\ Entered(process_id)
       THEN /\ ros_region' = [ros_region EXCEPT ![process_id] = slice]
            /\ ret' = AllowOk(ros_region[process_id])
       ELSE /\ ret' = AllowErr(slice, "NOSUPPORT")
            /\ UNCHANGED ros_region
    /\ upcalls' = NoUpcalls
    /\ UNCHANGED <<ros_enabled, ros_count, width, live, now, ticks,
                   app_alarms, num_armed, next_alarm, hw>>

allow_readwrite(process_id, allow_num, slice) ==
    /\ last' = [op |-> "allow_readwrite", cmd |-> allow_num,
                app |-> process_id, slice |-> slice]
    /\ IF allow_num = 0
       THEN IF ros_enabled
            THEN IF Entered(process_id)
                 THEN /\ ros_region' = [ros_region EXCEPT ![process_id] = slice]
                      /\ ret' = AllowOk(ros_region[process_id])
                 ELSE /\ ret' = AllowErr(slice, EnterError.err)
                      /\ UNCHANGED ros_region
            ELSE /\ ret' = AllowErr(slice, "NODEVICE")
                 /\ UNCHANGED ros_region
       ELSE /\ ret' = AllowErr(slice, "NOSUPPORT")
            /\ UNCHANGED ros_region
    /\ upcalls' = NoUpcalls
    /\ UNCHANGED <<ros_enabled, ros_count, width, live, now, ticks,
                   app_alarms, num_armed, next_alarm, hw>>

\* the region after update_values has had it: count in bytes 0..4 and the
\* counter in bytes 4..12 when the region holds twelve bytes, as it was
\* otherwise
Published(buf, count, t) ==
    IF buf.len >= RosLen
    THEN [buf EXCEPT !.bytes = to_le_bytes(count)
                                 \o to_le_bytes(as_u64(into_usize(t)))
                                 \o SubSeq(buf.bytes, RosLen + 1, buf.len)]
    ELSE buf

\* update_values that counts only the snapshots it has written
update_values_counts_writes(process_id) ==
    /\ last' = [op |-> "update_values", app |-> process_id]
    /\ ros_enabled' = TRUE
    /\ IF Entered(process_id)
       THEN LET count == ros_count[process_id]
                buf == ros_region[process_id]
            IN  /\ ros_region' = [ros_region EXCEPT
                                     ![process_id] = Published(buf, count, now)]
                /\ ros_count' = IF buf.len >= RosLen
                                THEN [ros_count EXCEPT ![process_id] =
                                         wrapping_add(count, Small(1))]
                                ELSE ros_count
       ELSE UNCHANGED <<ros_region, ros_count>>
    /\ ret' = NoReturn
    /\ upcalls' = NoUpcalls
    /\ UNCHANGED <<width, live, now, ticks, app_alarms, num_armed,
                   next_alarm, hw>>

\* update_values that also takes the hardware alarm down
update_values_disarms(process_id) ==
    /\ last' = [op |-> "update_values", app |-> process_id]
    /\ ros_enabled' = TRUE
    /\ IF Entered(process_id)
       THEN LET count == ros_count[process_id]
                buf == ros_region[process_id]
            IN  /\ ros_region' = [ros_region EXCEPT
                                     ![process_id] = Published(buf, count, now)]
                /\ ros_count' = [ros_count EXCEPT ![process_id] =
                                    wrapping_add(count, Small(1))]
       ELSE UNCHANGED <<ros_region, ros_count>>
    /\ ret' = NoReturn
    /\ upcalls' = NoUpcalls
    /\ next_alarm' = Disabled
    /\ hw' = HwDisarmed
    /\ UNCHANGED <<width, live, now, ticks, app_alarms, num_armed>>

update_values(process_id) ==
    /\ last' = [op |-> "update_values", app |-> process_id]
    /\ ros_enabled' = TRUE
    /\ IF Entered(process_id)
       THEN LET count == ros_count[process_id]
                buf == ros_region[process_id]
            IN  /\ ros_region' = [ros_region EXCEPT
                                     ![process_id] = Published(buf, count, now)]
                /\ ros_count' = [ros_count EXCEPT ![process_id] =
                                    wrapping_add(count, Small(1))]
       ELSE UNCHANGED <<ros_region, ros_count>>
    /\ ret' = NoReturn
    /\ upcalls' = NoUpcalls
    /\ UNCHANGED <<width, live, now, ticks, app_alarms, num_armed,
                   next_alarm, hw>>

\* two processes and the identity of a process that does not exist; the
\* snapshot counters start at zero, or two short of wrapping with the
\* snapshots that takes behind them
InitRos ==
    \E c \in RosStarts :
        started(Limbs32, {1, 2}, Small(120), c # Small(0), [p \in Procs |-> c])

RosCommands == {3, 5}

CommandRos ==
    /\ CommandOf(1, RosCommands, AbsArgs, RelArgs, RefArgs)
    /\ UNCHANGED <<stopped, elsewhere>>

\* process 2 shares a region and takes no snapshot
RosCallers == {1, 3}

AllowRos ==
    /\ \E process_id \in Procs : \E allow_num \in AllowNums :
          \E slice \in RosSlices : allow_readwrite(process_id, allow_num, slice)
    /\ UNCHANGED <<stopped, console_vars, mlx_vars, panicked>>

UpdateRos ==
    /\ \E process_id \in RosCallers :
          /\ \E c \in RosStarts :
                Lt(wrapping_sub(ros_count[process_id], c), Small(MaxUpdates))
          /\ update_values(process_id)
    /\ UNCHANGED <<stopped, console_vars, mlx_vars, panicked>>

NextRos ==
    CommandRos \/ AllowRos \/ UpdateRos \/ Interrupt \/ Advance(TickSteps)

SpecRos == InitRos /\ [][NextRos]_vars


----------------------------------------------------------------------------
(* C32: update_values only observes the alarm driver.  For any process,    *)
(* known to the kernel or not, and in any state, a call leaves every       *)
(* client's expiration and callback, num_armed, the cached selection       *)
(* next_alarm and the programming of the hardware alarm as they were, and  *)
(* schedules no callback; it does not move the counter either.             *)
C32_UpdateValuesObserves ==
    [][last'.op = "update_values"
          => /\ UNCHANGED <<app_alarms, num_armed, next_alarm, hw, now>>
             /\ upcalls' = NoUpcalls]_vars

\* a snapshot was taken and written while an alarm was armed and programmed
C32_Witness ==
    /\ last.op = "update_values"
    /\ last.app = 1
    /\ ros_region[1].len >= RosLen
    /\ SubSeq(ros_region[1].bytes, 5, 6) = <<136, 0>>
    /\ num_armed = 1
    /\ IsEnabled(next_alarm)
    /\ hw.op = "set_alarm"

(* C33: allow_readwrite with allow_num 0 fails with NODEVICE and hands the *)
(* slice back for as long as update_values has never been called; the      *)
(* first call of update_values, for any process, sets ros_enabled and      *)
(* nothing clears it; from then on the allow of a process the kernel knows *)
(* puts the slice into that process's record and returns the region that   *)
(* was there.  Any other allow_num fails with NOSUPPORT and hands the      *)
(* slice back.  No allow touches another process's region.                 *)
C33_AllowNeedsSnapshots ==
    [][/\ ros_enabled' <=> ros_enabled \/ last'.op = "update_values"
       /\ last'.op = "allow_readwrite" =>
             LET p == last'.app
                 slice == last'.slice
             IN  /\ last'.cmd = 0 /\ ~ros_enabled
                       => /\ ret' = AllowErr(slice, "NODEVICE")
                          /\ ros_region' = ros_region
                 /\ last'.cmd = 0 /\ ros_enabled /\ p \in live
                       => /\ ret' = AllowOk(ros_region[p])
                          /\ ros_region' = [ros_region EXCEPT ![p] = slice]
                 /\ last'.cmd # 0
                       => /\ ret' = AllowErr(slice, "NOSUPPORT")
                          /\ ros_region' = ros_region]_vars

\* an allow swapped a region of fourteen bytes in and got the earlier region
\* of eight bytes back
C33_Witness ==
    /\ last.op = "allow_readwrite"
    /\ last.cmd = 0
    /\ ros_enabled
    /\ ret = AllowOk(Slice(8))
    /\ ros_region[last.app] = Slice(14)

(* C34: every update_values call for a process the kernel knows adds       *)
(* exactly one, modulo 2^32, to that process's snapshot counter, whether   *)
(* or not a region is allowed or written, and nothing else changes a       *)
(* counter; a region of twelve bytes or more gets the counter's value from *)
(* before the call in its first four bytes, little-endian, so the          *)
(* published count is the number of earlier calls modulo 2^32; a shorter   *)
(* region is not written.                                                  *)
C34_SnapshotCounter ==
    [][/\ ros_count' # ros_count => last'.op = "update_values"
       /\ last'.op = "update_values" /\ last'.app \in live =>
             LET p == last'.app
             IN  /\ ros_count' = [ros_count EXCEPT
                                     ![p] = wrapping_add(ros_count[p], Small(1))]
                 /\ \A q \in Procs \ {p} : ros_region'[q] = ros_region[q]
                 /\ ros_region[p].len >= RosLen
                       => /\ SubSeq(ros_region'[p].bytes, 1, 4)
                                = to_le_bytes(ros_count[p])
                          /\ ros_region'[p].len = ros_region[p].len
                 /\ ros_region[p].len < RosLen
                       => ros_region'[p] = ros_region[p]]_vars

\* the counter wrapped: the snapshot published 2^32 - 1 and the counter is
\* back at zero; the bytes behind the twelfth are as the process left them
C34_Witness ==
    /\ last.op = "update_values"
    /\ last.app = 1
    /\ ros_count[1] = Small(0)
    /\ ros_region[1].len = 14
    /\ SubSeq(ros_region[1].bytes, 1, 4) = <<255, 255, 255, 255>>
    /\ SubSeq(ros_region[1].bytes, 13, 14) = <<0, 0>>


----------------------------------------------------------------------------
(* C35: num_armed never underflows.  A stop that succeeds finds num_armed  *)
(* at 1 or more and takes exactly one off; an alarm interrupt finds        *)
(* num_armed at least as large as the number of clients its sweep fires,   *)
(* also when it fires several; so no step leaves num_armed below zero.     *)
C35_NoUnderflow ==
    [][/\ num_armed' >= 0
       /\ last'.op = "command" /\ last'.cmd = 3 /\ ret' = Success
             => num_armed >= 1 /\ num_armed' = num_armed - 1
       /\ last'.op = "alarm"
             => /\ num_armed >= NumExpired(app_alarms, now_low)
                /\ num_armed' = num_armed - NumExpired(app_alarms, now_low)]_vars

\* one sweep fired the three clients, took num_armed from 3 to 0 and left
\* every record Disabled
C35_Witness ==
    /\ AfterAlarm
    /\ \A p \in live : Len(upcalls[p]) = 1 /\ ~IsEnabled(app_alarms[p].expiration)
    /\ Cardinality(live) = 3
    /\ num_armed = 0
    /\ hw = HwDisarmed


----------------------------------------------------------------------------
\* ticks since the client's reference, modulo 2^32
ClientAge(e) == wrapping_sub(now_low, e.reference)

\* the age of one client and the remaining time of another fit in 32 bits
FitsHalfCircle(a, b) ==
    Lt(wrapping_add(from_u32(ClientAge(a), Limbs64),
                    from_u32(ClientRemaining(b), Limbs64)),
       Bit33)

\* no Enabled client has elapsed and every pair of them fits
AllAheadAndClose ==
    /\ EnabledProcs # {}
    /\ \A p \in EnabledProcs : ~Expired(app_alarms[p].expiration, now_low)
    /\ \A p, q \in EnabledProcs :
          FitsHalfCircle(app_alarms[p].expiration, app_alarms[q].expiration)

(* C36: when the recompute step runs with every Enabled client unelapsed   *)
(* and, for every pair of Enabled clients i and j, (now_low - reference_i) *)
(* + (end_j - now_low) below 2^32, the client it selects has the least     *)
(* remaining time of all Enabled clients, in whatever order the scan       *)
(* visits the records.                                                     *)
C36_SelectsMinimumRemaining ==
    Recomputed /\ AllAheadAndClose
        => \A order \in Orders(live) : \A p \in EnabledProcs :
              Leq(ClientRemaining(FindEarliest(app_alarms, order, now, width)),
                  ClientRemaining(app_alarms[p].expiration))


----------------------------------------------------------------------------
(* The MLX90614 thermometer driver (capsules/src/mlx90614.rs)              *)

\* Mlx90614Registers
RAW1 == 4

TA == 6

TOBJ1 == 7

\* the two bytes the sensor can answer with: the presence pattern, 298.10 K
\* and 260.00 K in units of 0.02 K, low byte first
Replies == {<<60, 0>>, <<57, 58>>, <<200, 50>>}

\* hil::i2c::Error, the outcome of a bus transfer
Errors == {"CommandComplete", "DataNak"}

\* SMBusDevice::smbus_write_read: the transfer the bus has taken
BusTransfer(buf, write_len, read_len) ==
    [busy |-> TRUE, buf |-> buf, write_len |-> write_len,
     read_len |-> read_len]

\* Upcall::schedule: the default upcall reaches no process
Schedule(r0) ==
    IF upcall = NoUpcall THEN NoUpcalls
    ELSE [NoUpcalls EXCEPT ![upcall] = << <<r0, Small(0), Small(0)>> >>]

is_present ==
    /\ state' = "IsPresent"
    /\ IF buffer # NoBuffer
       THEN /\ smbus_temp' = BusTransfer([buffer EXCEPT ![1] = RAW1], 1, 1)
            /\ buffer' = NoBuffer
       ELSE UNCHANGED <<smbus_temp, buffer>>

read_ambient_temperature ==
    /\ state' = "ReadAmbientTemp"
    /\ IF buffer # NoBuffer
       THEN /\ smbus_temp' = BusTransfer([buffer EXCEPT ![1] = TA], 1, 1)
            /\ buffer' = NoBuffer
       ELSE UNCHANGED <<smbus_temp, buffer>>

read_object_temperature ==
    /\ state' = "ReadObjTemp"
    /\ IF buffer # NoBuffer
       THEN /\ smbus_temp' = BusTransfer([buffer EXCEPT ![1] = TOBJ1], 1, 2)
            /\ buffer' = NoBuffer
       ELSE UNCHANGED <<smbus_temp, buffer>>

\* the operation a command starts
Operation(command_num) ==
    CASE command_num = 1 -> is_present
      [] command_num = 2 -> read_ambient_temperature
      [] command_num = 3 -> read_object_temperature

\* Driver::command of the thermometer
mlx_command(command_num, appid) ==
    /\ ~panicked
    /\ last' = [op |-> "mlx_command", cmd |-> command_num]
    /\ IF command_num = 0
       THEN ret' = Success /\ UNCHANGED <<state, buffer, smbus_temp>>
       ELSE IF command_num \in {1, 2, 3}
       THEN IF state = "Idle"
            THEN Operation(command_num) /\ ret' = Success
            ELSE ret' = Failure("BUSY") /\ UNCHANGED <<state, buffer, smbus_temp>>
       ELSE ret' = Failure("NOSUPPORT") /\ UNCHANGED <<state, buffer, smbus_temp>>
    /\ upcalls' = NoUpcalls
    /\ UNCHANGED <<upcall, temperature, panicked, alarm_vars, ros_vars,
                   console_vars>>

\* Driver::subscribe of the thermometer
mlx_subscribe(subscribe_num, callback, app_id) ==
    /\ ~panicked
    /\ last' = [op |-> "mlx_subscribe", cmd |-> subscribe_num]
    /\ IF subscribe_num = 0
       THEN upcall' = callback /\ ret' = SubscribeOk(upcall)
       ELSE UNCHANGED upcall /\ ret' = SubscribeErr(callback, "NOSUPPORT")
    /\ upcalls' = NoUpcalls
    /\ UNCHANGED <<state, buffer, smbus_temp, temperature, panicked,
                   alarm_vars, ros_vars, console_vars>>

\* TemperatureDriver::read_temperature, called by a capsule of the kernel
read_temperature ==
    /\ ~panicked
    /\ last' = [op |-> "read_temperature"]
    /\ read_object_temperature
    /\ ret' = Success
    /\ upcalls' = NoUpcalls
    /\ UNCHANGED <<upcall, temperature, panicked, alarm_vars, ros_vars,
                   console_vars>>

\* (buffer[0] | buffer[1] << 8) * 2 as a usize of 32 bits
Doubled(buf) ==
    LET raw2 == (buf[1] + 256 * buf[2]) * 2
    IN  U32(raw2 \div 65536, raw2 % 65536)

CentiKelvinAtZero == Small(27300)

\* the subtraction overflows for a reading below 273.00 K
Underflows(buf) == Lt(Doubled(buf), CentiKelvinAtZero)

\* I2CClient::command_complete for the transfer the bus holds, with the bytes
\* the sensor answered and the outcome of the transfer.  A subtraction that
\* overflows wraps in a build without overflow checks and panics in a build
\* with them.
command_complete(buf, error) ==
    /\ ~panicked
    /\ smbus_temp # BusIdle
    /\ last' = [op |-> "command_complete", state |-> state]
    /\ smbus_temp' = BusIdle
    /\ ret' = NoReturn
    /\ CASE state = "Idle" ->
              /\ buffer' = buf
              /\ upcalls' = NoUpcalls
              /\ UNCHANGED <<state, temperature, panicked>>
         [] state = "IsPresent" ->
              LET present == error = "CommandComplete" /\ buf[1] = 60
              IN  /\ upcalls' = Schedule(IF present THEN Small(1) ELSE Small(0))
                  /\ buffer' = buf
                  /\ state' = "Idle"
                  /\ UNCHANGED <<temperature, panicked>>
         [] state \in {"ReadAmbientTemp", "ReadObjTemp"} ->
              IF error = "CommandComplete"
              THEN \/ /\ temperature' = <<wrapping_sub(Doubled(buf), CentiKelvinAtZero)>>
                      /\ upcalls' = Schedule(wrapping_sub(Doubled(buf), CentiKelvinAtZero))
                      /\ buffer' = buf
                      /\ state' = "Idle"
                      /\ UNCHANGED panicked
                   \/ /\ Underflows(buf)
                      /\ panicked' = TRUE
                      /\ upcalls' = NoUpcalls
                      /\ UNCHANGED <<state, buffer, temperature>>
              ELSE /\ temperature' = <<Small(0)>>
                   /\ upcalls' = Schedule(Small(0))
                   /\ buffer' = buf
                   /\ state' = "Idle"
                   /\ UNCHANGED panicked
    /\ UNCHANGED <<upcall, alarm_vars, ros_vars, console_vars>>

InitMlx == new(Limbs32, {1, 2}, Small(120))

MlxCommands == 0..4

CommandMlx ==
    \E command_num \in MlxCommands : \E appid \in live :
        mlx_command(command_num, appid)

SubscribeMlx ==
    \E subscribe_num \in SubscribeNums : \E app_id \in live :
        mlx_subscribe(subscribe_num, app_id, app_id)

CompleteMlx ==
    \E buf \in Replies : \E error \in Errors : command_complete(buf, error)

NextMlx == CommandMlx \/ SubscribeMlx \/ read_temperature \/ CompleteMlx

SpecMlx == InitMlx /\ [][NextMlx]_vars


----------------------------------------------------------------------------
(* C38: the thermometer driver has at most one operation in flight.        *)
(* Commands 1, 2 and 3 issued while the state is not Idle fail with BUSY   *)
(* and change neither the state nor the buffer nor the bus; issued while   *)
(* Idle they succeed and leave Idle; every command_complete returns the    *)
(* state to Idle and gives the buffer back.                                *)
C38_OneOperationInFlight ==
    [][/\ last'.op = "mlx_command" /\ last'.cmd \in {1, 2, 3} /\ state # "Idle"
             => /\ ret' = Failure("BUSY")
                /\ UNCHANGED <<state, buffer, smbus_temp>>
       /\ last'.op = "mlx_command" /\ last'.cmd \in {1, 2, 3} /\ state = "Idle"
             => /\ ret' = Success
                /\ state' # "Idle"
       /\ last'.op = "command_complete"
             => /\ state' = "Idle"
                /\ buffer' # NoBuffer]_vars


----------------------------------------------------------------------------
(* The console driver (capsules/src/console.rs): the write path            *)

\* the length of the static transmit buffer in the model
TxBufLen == 2

\* lengths of the buffers a process allows and of the writes it asks for
AllowLens == {1, 3}

WriteLens == {0, 3}

\* the command numbers tried: driver check, write, an unknown one
ConsoleCommands == {0, 1, 4}

Min(a, b) == IF a < b THEN a ELSE b

\* UartData::transmit_buffer: the UART sends tx_len bytes taken from offset
\* from of the write buffer of app and then calls transmitted_buffer
UartSending(app, from, tx_len) ==
    [busy |-> TRUE, app |-> app, from |-> from, tx_len |-> tx_len]

\* the console as a handler finds it, with the upcalls it has scheduled
ConsoleState ==
    [apps |-> apps, tx_in_progress |-> tx_in_progress, tx_buffer |-> tx_buffer,
     uart |-> uart, panicked |-> FALSE, upcalls |-> NoUpcalls]

\* Console::send: start a transmission of the next piece of the write
\* buffer, or mark the write pending when a transmission is in progress.
\* The piece starts write_remaining bytes before the end of the buffer;
\* taking it panics when the buffer is shorter than that.  The value the
\* UART returns is dropped, and with it the buffer of a transmission the
\* UART did not take: accepts tells whether the UART takes a transmission
\* of no bytes, which some UARTs do and others refuse.
send(cs, app_id, accepts) ==
    LET app == cs.apps[app_id]
    IN  IF cs.tx_in_progress = NoApp
        THEN IF ~cs.tx_buffer
             THEN [cs EXCEPT !.tx_in_progress = app_id]
             ELSE IF app.write_buffer # 0 /\ app.write_remaining > app.write_buffer
             THEN [cs EXCEPT !.tx_in_progress = app_id, !.panicked = TRUE]
             ELSE
               LET transaction_len ==
                       IF app.write_buffer = 0 THEN 0
                       ELSE Min(app.write_remaining, TxBufLen)
               IN  [cs EXCEPT
                      !.tx_in_progress = app_id,
                      !.tx_buffer = FALSE,
                      !.apps[app_id].write_remaining = @ - transaction_len,
                      !.uart = IF transaction_len > 0 \/ accepts
                               THEN UartSending(app_id,
                                        app.write_buffer - app.write_remaining,
                                        transaction_len)
                               ELSE UartIdle]
        ELSE [cs EXCEPT !.apps[app_id].pending_write = TRUE]

\* Console::send_new
send_new(cs, app_id, len, accepts) ==
    LET write_len == Min(len, cs.apps[app_id].write_buffer)
    IN  send([cs EXCEPT !.apps[app_id].write_len = write_len,
                        !.apps[app_id].write_remaining = write_len],
             app_id, accepts)

\* Console::send_continue: the console afterwards, and whether the send is
\* still active
send_continue(cs, app_id, accepts) ==
    IF cs.apps[app_id].write_remaining > 0
    THEN [cs |-> send(cs, app_id, accepts), more |-> TRUE]
    ELSE [cs |-> cs, more |-> FALSE]

\* the handler's result put into the variables; a panic stops the kernel
Becomes(cs) ==
    IF cs.panicked
    THEN /\ panicked' = TRUE
         /\ upcalls' = NoUpcalls
         /\ UNCHANGED console_vars
    ELSE /\ apps' = cs.apps
         /\ tx_in_progress' = cs.tx_in_progress
         /\ tx_buffer' = cs.tx_buffer
         /\ uart' = cs.uart
         /\ upcalls' = cs.upcalls
         /\ UNCHANGED panicked

\* Driver::allow_readonly of the console
allow_readonly(appid, allow_num, slice) ==
    /\ ~panicked
    /\ last' = [op |-> "allow_readonly", cmd |-> allow_num, app |-> appid]
    /\ IF allow_num = 1
       THEN IF Entered(appid)
            THEN /\ apps' = [apps EXCEPT ![appid].write_buffer = slice]
                 /\ ret' = AllowOk(apps[appid].write_buffer)
            ELSE /\ ret' = AllowErr(slice, EnterError.err)
                 /\ UNCHANGED apps
       ELSE /\ ret' = AllowErr(slice, "NOSUPPORT")
            /\ UNCHANGED apps
    /\ upcalls' = NoUpcalls
    /\ UNCHANGED <<tx_in_progress, tx_buffer, uart, panicked, alarm_vars,
                   ros_vars, mlx_vars>>

\* Driver::command of the console, for the driver check, a write and an
\* unknown command; commands 2 and 3 belong to the receive path
console_command(cmd_num, arg1, appid, accepts) ==
    /\ ~panicked
    /\ cmd_num \notin {2, 3}
    /\ last' = [op |-> "console_command", cmd |-> cmd_num, app |-> appid]
    /\ IF cmd_num = 0
       THEN ret' = Success /\ Becomes(ConsoleState)
       ELSE IF cmd_num = 1
       THEN IF Entered(appid)
            THEN /\ ret' = Success
                 /\ Becomes(send_new(ConsoleState, appid, arg1, accepts))
            ELSE ret' = EnterError /\ Becomes(ConsoleState)
       ELSE ret' = Failure("NOSUPPORT") /\ Becomes(ConsoleState)
    /\ UNCHANGED <<alarm_vars, ros_vars, mlx_vars>>

\* the first half of transmitted_buffer: more of the write that was being
\* sent, or the upcall to its process
Continued(cs) ==
    LET appid == cs.tx_in_progress
        taken == [cs EXCEPT !.tx_in_progress = NoApp]
    IN  IF appid = NoApp \/ ~Entered(appid) THEN taken
        ELSE LET r == send_continue(taken, appid, TRUE)
             IN  IF r.more THEN r.cs
                 ELSE [r.cs EXCEPT
                         !.apps[appid].write_len = 0,
                         !.upcalls[appid] =
                             << <<cs.apps[appid].write_len, 0, 0>> >>]

\* the second half: the grant records in the order the iterator visits
\* them, up to the first pending write that starts a transmission
RECURSIVE Pending(_, _, _)
Pending(cs, order, i) ==
    IF i > Len(order) THEN cs
    ELSE IF cs.apps[order[i]].pending_write
    THEN LET r == send_continue(
                      [cs EXCEPT !.apps[order[i]].pending_write = FALSE],
                      order[i], TRUE)
         IN  IF r.more THEN r.cs ELSE Pending(r.cs, order, i + 1)
    ELSE Pending(cs, order, i + 1)

\* TransmitClient::transmitted_buffer, called by the UART when the
\* transmission it took is done
transmitted_buffer(order) ==
    /\ ~panicked
    /\ uart.busy
    /\ last' = [op |-> "transmitted_buffer"]
    /\ ret' = NoReturn
    /\ LET replaced == [ConsoleState EXCEPT !.tx_buffer = TRUE, !.uart = UartIdle]
           continued == Continued(replaced)
       IN  IF continued.panicked \/ continued.tx_in_progress # NoApp
           THEN Becomes(continued)
           ELSE Becomes(Pending(continued, order, 1))
    /\ UNCHANGED <<alarm_vars, ros_vars, mlx_vars>>

InitConsole == new(Limbs32, {1, 2}, Small(120))

AllowConsole ==
    \E appid \in Procs : \E allow_num \in AllowNums : \E slice \in AllowLens :
        allow_readonly(appid, allow_num, slice)

CommandConsole ==
    \E cmd_num \in ConsoleCommands : \E arg1 \in WriteLens :
        \E appid \in Procs : \E accepts \in BOOLEAN :
            console_command(cmd_num, arg1, appid, accepts)

TransmittedConsole == \E order \in Orders(live) : transmitted_buffer(order)

NextConsole == AllowConsole \/ CommandConsole \/ TransmittedConsole

SpecConsole == InitConsole /\ [][NextConsole]_vars


----------------------------------------------------------------------------
(* C37: a write can always be requested and is never lost.  Command 1 of a *)
(* process the kernel knows succeeds; with no transmission in progress the *)
(* write becomes the transmission in progress, otherwise it is marked      *)
(* pending; a pending write that transmitted_buffer takes up is sent or    *)
(* answered with the write-completed upcall, and the process stays owed an *)
(* answer until then; the UART holds a transmission only for the write in  *)
(* progress, so at most one is in flight.                                  *)
C37_WritesAreServed ==
    [][/\ last'.op = "console_command" /\ last'.cmd = 1 /\ last'.app \in live
             => /\ ret' = Success
                /\ tx_in_progress = NoApp => tx_in_progress' = last'.app
                /\ tx_in_progress # NoApp => apps'[last'.app].pending_write
       /\ last'.op = "transmitted_buffer"
             => \A p \in live :
                   apps[p].pending_write /\ ~apps'[p].pending_write
                       => tx_in_progress' = p \/ upcalls'[p] # <<>>
       /\ uart'.busy => tx_in_progress' = uart'.app]_vars

====
